---------------------------- MODULE Spec2Model ----------------------------
(***************************************************************************)
(* Model of keras_cv's SAMPromptEncoder (sam_prompt_encoder.py) and of the *)
(* OldRandomFlip layer of benchmarks/vectorized_random_flip.py.            *)
(*                                                                         *)
(* Tensors are records [shape, data]: shape is the sequence of dimensions  *)
(* and data the elements in row-major order, so that reshape, stack,       *)
(* concatenate, broadcast_to and where are index computations, as in the   *)
(* tensor engine.  Coordinates are fixed-point numbers in units of half a  *)
(* pixel (the value 3 is 1.5 pixels); embedding elements are integers.     *)
(***************************************************************************)
EXTENDS Integers, Sequences, FiniteSets, TLC

(***************************************************************************)
(* Bounds of the model.                                                    *)
(***************************************************************************)
MaxBatch == 2
MaxPoints == 2
MaxBoxes == 2
MaxMasks == 2
MaxGrid == 2

(***************************************************************************)
(* Tensor engine (keras_cv.backend.ops).                                   *)
(***************************************************************************)
RECURSIVE Size(_)
Size(shape) ==
    IF shape = <<>> THEN 1 ELSE Head(shape) * Size(Tail(shape))

\* Row-major flat offset (0-based) of the 0-based multi-index idx.
RECURSIVE Ravel(_, _)
Ravel(idx, shape) ==
    IF shape = <<>> THEN 0
    ELSE Head(idx) * Size(Tail(shape)) + Ravel(Tail(idx), Tail(shape))

\* The 0-based multi-index of the row-major flat offset k (0-based).
RECURSIVE Unravel(_, _)
Unravel(k, shape) ==
    IF shape = <<>> THEN <<>>
    ELSE LET inner == Size(Tail(shape))
         IN  <<k \div inner>> \o Unravel(k % inner, Tail(shape))

At(t, idx) == t.data[Ravel(idx, t.shape) + 1]

\* The tensor of the shape whose element at the multi-index idx is F(idx);
\* its data is the sequence of the elements in row-major order.
Make(shape, F(_)) ==
    [shape |-> shape,
     data  |-> SubSeq([k \in 1..Size(shape) |-> F(Unravel(k - 1, shape))],
                      1, Size(shape))]

Full(shape, v) ==
    [shape |-> shape,
     data  |-> SubSeq([k \in 1..Size(shape) |-> v], 1, Size(shape))]

\* ops.size
TensorSize(t) == Size(t.shape)

\* ops.reshape: the elements keep their row-major order.
CanReshape(t, shape) == Size(t.shape) = Size(shape)
Reshape(t, shape) == [shape |-> shape, data |-> t.data]

\* t[..., None]
ExpandLast(t) == [shape |-> Append(t.shape, 1), data |-> t.data]

\* t[None, ...]
ExpandFirst(t) == [shape |-> <<1>> \o t.shape, data |-> t.data]

\* ops.broadcast_to: dimensions are aligned from the right; a source
\* dimension must equal the target dimension or be 1.
CanBroadcast(src, shape) ==
    /\ Len(src) <= Len(shape)
    /\ \A d \in 1..Len(src) :
          LET s == src[d]
              g == shape[Len(shape) - Len(src) + d]
          IN  s = g \/ s = 1

BroadcastIndex(idx, src) ==
    [d \in 1..Len(src) |->
        IF src[d] = 1 THEN 0 ELSE idx[Len(idx) - Len(src) + d]]

BroadcastTo(t, shape) ==
    Make(shape, LAMBDA idx : At(t, BroadcastIndex(idx, t.shape)))


\* Floating point: NaN absorbs every addition.
NaN == 0 - 1000000

FAdd(x, y) == IF x = NaN \/ y = NaN THEN NaN ELSE x + y

\* a + b, b broadcast against a (a scalar row of shape (1, E) here).
Add(a, b) ==
    Make(a.shape,
         LAMBDA idx : FAdd(At(a, idx), At(b, BroadcastIndex(idx, b.shape))))

AddScalar(t, s) == Make(t.shape, LAMBDA idx : FAdd(At(t, idx), s))

\* t == v, elementwise.
Equal(t, v) == Make(t.shape, LAMBDA idx : At(t, idx) = v)

\* ops.where(c, a, b): a and b are broadcast against the condition.
Where(c, a, b) ==
    Make(c.shape,
         LAMBDA idx : IF At(c, idx)
                      THEN At(a, BroadcastIndex(idx, a.shape))
                      ELSE At(b, BroadcastIndex(idx, b.shape)))

\* ops.arange(n, dtype="int32")
Arange(n) == Make(<<n>>, LAMBDA idx : idx[1])

InsertAt(seq, pos, v) ==
    SubSeq(seq, 1, pos) \o <<v>> \o SubSeq(seq, pos + 1, Len(seq))

RemoveAt(seq, pos) ==
    SubSeq(seq, 1, pos) \o SubSeq(seq, pos + 2, Len(seq))

\* t[:, :, c, :] for axis = 2: the index c is taken on the 0-based axis.
Take(t, axis, c) ==
    Make(RemoveAt(t.shape, axis),
         LAMBDA idx : At(t, InsertAt(idx, axis, c)))

\* ops.stack([a, b], axis): a new axis of length 2 at the 0-based axis.
Stack(a, b, axis) ==
    Make(InsertAt(a.shape, axis, 2),
         LAMBDA idx : At(IF idx[axis + 1] = 0 THEN a ELSE b,
                         RemoveAt(idx, axis)))

\* ops.concatenate([a, b], axis=1) of two rank-3 tensors: every other
\* axis must agree.
CanConcatenate(a, b) ==
    /\ Len(a.shape) = Len(b.shape)
    /\ \A d \in 1..Len(a.shape) : d # 2 => a.shape[d] = b.shape[d]

Concatenate(a, b) ==
    Make([a.shape EXCEPT ![2] = a.shape[2] + b.shape[2]],
         LAMBDA idx : IF idx[2] < a.shape[2]
                      THEN At(a, idx)
                      ELSE At(b, [idx EXCEPT ![2] = idx[2] - a.shape[2]]))

\* keras.layers.Embedding(1, embed_dim) applied to indices of shape (n,):
\* the rows of the table at the indices, shape (n, embed_dim).
Embedding(table, indices) ==
    Make(<<indices.shape[1], table.shape[2]>>,
         LAMBDA idx : At(table, <<At(indices, <<idx[1]>>), idx[2]>>))

(***************************************************************************)
(* RandomFrequencyPositionalEmbeddings (sam_layers.py): sine and cosine of *)
(* 2*pi*((2*c/size - 1) @ matrix).  The sine is tabulated on sixteenths of *)
(* a turn and scaled by ten; a division by a zero image dimension gives    *)
(* NaN.                                                                    *)
(***************************************************************************)
SinTable == <<0, 4, 7, 9, 10, 9, 7, 4, 0, -4, -7, -9, -10, -9, -7, -4>>

Period == Len(SinTable)

Sin(phase) == SinTable[(phase % Period) + 1]

Cos(phase) == Sin(phase + Period \div 4)

\* Sixteenths of a turn of 2*pi*(2*(c/2)/size - 1)*g, for a coordinate c in
\* half pixels.
Phase(c, size, g) == ((c - size) * g * Period) \div size

\* One output element: feature k (0-based) of the point (x, y).
positional_encodings(x, y, image_size, matrix, k) ==
    LET F == matrix.shape[2]
        f == k % F
        phase == Phase(x, image_size[2], At(matrix, <<0, f>>))
                 + Phase(y, image_size[1], At(matrix, <<1, f>>))
    IN  IF image_size[1] = 0 \/ image_size[2] = 0 \/ x = NaN \/ y = NaN
        THEN NaN
        ELSE IF k < F THEN Sin(phase) ELSE Cos(phase)

\* coords of shape (..., 2) in half pixels; x is normalised by the width
\* image_size[1] and y by the height image_size[0] (0-based).
encode_coordinates(coords, image_size, matrix) ==
    LET n == Len(coords.shape)
        E == 2 * matrix.shape[2]
    IN  Make([coords.shape EXCEPT ![n] = E],
             LAMBDA idx :
                positional_encodings(
                    At(coords, [idx EXCEPT ![n] = 0]),
                    At(coords, [idx EXCEPT ![n] = 1]),
                    image_size, matrix, idx[n]))

\* The grid of pixel centres ((j + 0.5) / W, (i + 0.5) / H).
encode_image(size, matrix) ==
    Make(<<size[1], size[2], 2 * matrix.shape[2]>>,
         LAMBDA idx :
            positional_encodings(2 * idx[2] + 1, 2 * idx[1] + 1,
                                 size, matrix, idx[3]))


(***************************************************************************)
(* keras.layers.Conv2D with "valid" padding, as the mask downscaler uses   *)
(* it.  The weights belong to the Keras layer: here every filter has the   *)
(* weight one on the first tap of its window and zero elsewhere, and no    *)
(* bias, which keeps the shape arithmetic exact.  Layer normalisation and  *)
(* the activation keep the shape and are not modelled.                     *)
(***************************************************************************)
ConvOut(n, kernel_size, strides) == (n - kernel_size) \div strides + 1

CanConv2D(t, in_chans, kernel_size) ==
    /\ Len(t.shape) = 4
    /\ t.shape[4] = in_chans
    /\ t.shape[2] >= kernel_size
    /\ t.shape[3] >= kernel_size

Conv2D(t, filters, kernel_size, strides) ==
    LET H == t.shape[2]
        W == t.shape[3]
        C == t.shape[4]
    IN  Make(<<t.shape[1],
               ConvOut(H, kernel_size, strides),
               ConvOut(W, kernel_size, strides),
               filters>>,
             LAMBDA idx :
                t.data[((idx[1] * H + idx[2] * strides) * W
                            + idx[3] * strides) * C + 1])

(***************************************************************************)
(* SAMPromptEncoder: the state of one encoder object.                      *)
(***************************************************************************)
VARIABLES
    pc,                     \* "new", "constructed", "built", "returning"
    embed_dim,
    image_embedding_size,
    input_image_size,
    mask_in_chans,
    weights,                \* the six embedding tables and the frozen matrix
    inputs,                 \* the inputs of the last call
    outputs,                \* what the last call returned
    previous                \* the call before it, as its caller kept it

encoder_vars == <<pc, embed_dim, image_embedding_size, input_image_size,
                  mask_in_chans, weights, inputs, outputs, previous>>

NoTensor == [shape |-> <<0>>, data |-> <<>>]

NoWeights ==
    [foreground_point_embed |-> NoTensor,
     background_point_embed |-> NoTensor,
     top_left_corner_embed |-> NoTensor,
     bottom_right_corner_embed |-> NoTensor,
     not_a_point_embed |-> NoTensor,
     no_mask_embed |-> NoTensor,
     positional_embedding_layer |-> NoTensor]

NoInputs ==
    [points |-> NoTensor, labels |-> NoTensor,
     boxes |-> NoTensor, masks |-> NoTensor]

NoOutputs ==
    [status |-> "none",
     sparse_embeddings |-> NoTensor,
     dense_embeddings |-> NoTensor,
     dense_positional_embeddings |-> NoTensor]

NoCall == [inputs |-> NoInputs, outputs |-> NoOutputs]

\* The 0.5 added to point and box coordinates, in half pixels.
HalfPixel == 1

\* positional_embedding_layer.encode_coordinates(coords, input_image_size)
PositionalEncoding(coords) ==
    encode_coordinates(coords, input_image_size,
                       weights.positional_embedding_layer)

\* The labels broadcast of __embed_points succeeds.
CanEmbedPoints(points, labels) ==
    CanBroadcast(Append(labels.shape, 1),
                 [points.shape EXCEPT ![Len(points.shape)] = embed_dim])

\* embed_points with the not-a-point replacement made before the foreground
\* and background rows are added.
embed_points_replace_first(points, labels) ==
    LET shifted == AddScalar(points, HalfPixel)
        indices == Arange(1)
        point_embeddings == PositionalEncoding(shifted)
        blabels == BroadcastTo(ExpandLast(labels), point_embeddings.shape)
        replaced ==
            Where(Equal(blabels, -1),
                  Embedding(weights.not_a_point_embed, indices),
                  point_embeddings)
    IN  Where(Equal(blabels, 0),
              Add(replaced,
                  Embedding(weights.background_point_embed, indices)),
              Add(replaced,
                  Embedding(weights.foreground_point_embed, indices)))

\* embed_points with the foreground row added for label 1 only and the
\* background row for every other label.
embed_points_foreground_is_one(points, labels) ==
    LET shifted == AddScalar(points, HalfPixel)
        indices == Arange(1)
        point_embeddings == PositionalEncoding(shifted)
        blabels == BroadcastTo(ExpandLast(labels), point_embeddings.shape)
        added ==
            Where(Equal(blabels, 1),
                  Add(point_embeddings,
                      Embedding(weights.foreground_point_embed, indices)),
                  Add(point_embeddings,
                      Embedding(weights.background_point_embed, indices)))
    IN  Where(Equal(blabels, -1),
              Embedding(weights.not_a_point_embed, indices),
              added)

embed_points(points, labels) ==
    LET shifted == AddScalar(points, HalfPixel)
        indices == Arange(1)
        point_embeddings == PositionalEncoding(shifted)
        blabels == BroadcastTo(ExpandLast(labels), point_embeddings.shape)
        added ==
            Where(Equal(blabels, 0),
                  Add(point_embeddings,
                      Embedding(weights.background_point_embed, indices)),
                  Add(point_embeddings,
                      Embedding(weights.foreground_point_embed, indices)))
    IN  Where(Equal(blabels, -1),
              Embedding(weights.not_a_point_embed, indices),
              added)

\* embed_box with the two corner embeddings stacked on axis 1 instead of
\* axis 2.
embed_box_stack_axis_1(box) ==
    LET B == box.shape[1]
        N == box.shape[2]
        shifted == AddScalar(box, HalfPixel)
        indices == Arange(1)
        corner_embedding == PositionalEncoding(shifted)
        top_left_embedding ==
            Add(Take(corner_embedding, 2, 0),
                Embedding(weights.top_left_corner_embed, indices))
        bottom_right_embedding ==
            Add(Take(corner_embedding, 2, 1),
                Embedding(weights.bottom_right_corner_embed, indices))
        stacked == Stack(top_left_embedding, bottom_right_embedding, 1)
    IN  Reshape(stacked, <<B, N * 2, embed_dim>>)

embed_box(box) ==
    LET B == box.shape[1]
        N == box.shape[2]
        shifted == AddScalar(box, HalfPixel)
        indices == Arange(1)
        corner_embedding == PositionalEncoding(shifted)
        top_left_embedding ==
            Add(Take(corner_embedding, 2, 0),
                Embedding(weights.top_left_corner_embed, indices))
        bottom_right_embedding ==
            Add(Take(corner_embedding, 2, 1),
                Embedding(weights.bottom_right_corner_embed, indices))
        stacked == Stack(top_left_embedding, bottom_right_embedding, 2)
    IN  Reshape(stacked, <<B, N * 2, embed_dim>>)

\* The mask downscaler, built for one input channel.
CanEmbedMask(mask) ==
    /\ CanConv2D(mask, 1, 2)
    /\ ConvOut(mask.shape[2], 2, 2) >= 2
    /\ ConvOut(mask.shape[3], 2, 2) >= 2

\* embed_mask with a second convolution of stride 1.
embed_mask_stride_1(mask) ==
    Conv2D(Conv2D(Conv2D(mask, mask_in_chans \div 4, 2, 2),
                  mask_in_chans, 2, 1),
           embed_dim, 1, 1)

embed_mask(mask) ==
    Conv2D(Conv2D(Conv2D(mask, mask_in_chans \div 4, 2, 2),
                  mask_in_chans, 2, 2),
           embed_dim, 1, 1)

no_mask_embed(B) ==
    BroadcastTo(
        Reshape(Embedding(weights.no_mask_embed, Arange(1)),
                <<1, 1, 1, embed_dim>>),
        <<B, image_embedding_size[1], image_embedding_size[2], embed_dim>>)

FlatMask(mask) ==
    Reshape(mask, <<mask.shape[1] * mask.shape[2], mask.shape[3],
                    mask.shape[4], mask.shape[5]>>)

CanMaybeInputMaskEmbed(mask) ==
    mask.shape[2] = 0 \/ CanEmbedMask(FlatMask(mask))

maybe_input_mask_embed(mask, B) ==
    IF mask.shape[2] = 0
    THEN no_mask_embed(B)
    ELSE embed_mask(FlatMask(mask))

\* ops.cond(ops.equal(ops.size(mask), 0), _no_mask_embed,
\*          _maybe_input_mask_embed): the selected branch is evaluated.
CanDenseEmbed(mask) ==
    TensorSize(mask) = 0 \/ CanMaybeInputMaskEmbed(mask)

\* dense_embed that selects the branch by the mask-count axis alone.
dense_embed_by_mask_count(mask, B) == maybe_input_mask_embed(mask, B)

dense_embed(mask, B) ==
    IF TensorSize(mask) = 0
    THEN no_mask_embed(B)
    ELSE maybe_input_mask_embed(mask, B)

\* SAMPromptEncoder.call: the returned mapping, or a failure of one of the
\* tensor operations.
CallFails(inp) ==
    \/ ~CanEmbedPoints(inp.points, inp.labels)
    \/ ~CanConcatenate(
            [shape |-> [inp.points.shape EXCEPT ![3] = embed_dim]],
            [shape |-> <<inp.boxes.shape[1], 2 * inp.boxes.shape[2],
                         embed_dim>>])
    \/ ~CanDenseEmbed(inp.masks)

\* call with the positional grid broadcast to the batch of the prompts.
call_positional_per_batch(inp) ==
    IF CallFails(inp)
    THEN [NoOutputs EXCEPT !.status = "error"]
    ELSE LET B == inp.points.shape[1]
             grid == encode_image(image_embedding_size,
                                  weights.positional_embedding_layer)
         IN  [status |-> "ok",
              sparse_embeddings |->
                  Concatenate(embed_points(inp.points, inp.labels),
                              embed_box(inp.boxes)),
              dense_embeddings |-> dense_embed(inp.masks, B),
              dense_positional_embeddings |->
                  BroadcastTo(ExpandFirst(grid), <<B>> \o grid.shape)]

\* call with the box embeddings concatenated before the point embeddings.
call_boxes_first(inp) ==
    IF CallFails(inp)
    THEN [NoOutputs EXCEPT !.status = "error"]
    ELSE LET B == inp.points.shape[1]
         IN  [status |-> "ok",
              sparse_embeddings |->
                  Concatenate(embed_box(inp.boxes),
                              embed_points(inp.points, inp.labels)),
              dense_embeddings |-> dense_embed(inp.masks, B),
              dense_positional_embeddings |->
                  ExpandFirst(encode_image(image_embedding_size,
                                           weights.positional_embedding_layer))]

call(inp) ==
    IF CallFails(inp)
    THEN [NoOutputs EXCEPT !.status = "error"]
    ELSE LET B == inp.points.shape[1]
         IN  [status |-> "ok",
              sparse_embeddings |->
                  Concatenate(embed_points(inp.points, inp.labels),
                              embed_box(inp.boxes)),
              dense_embeddings |-> dense_embed(inp.masks, B),
              dense_positional_embeddings |->
                  ExpandFirst(encode_image(image_embedding_size,
                                           weights.positional_embedding_layer))]


(***************************************************************************)
(* OldRandomFlip: the state of one layer object.                           *)
(***************************************************************************)
VARIABLES
    flip_pc,                \* "new", "constructed", "raised",
                            \* "transformed", "augmented"
    mode,
    horizontal,
    vertical,
    draws,                  \* the draws made for the last transformation
    transformation,         \* the last random transformation
    image,                  \* the last image given to augment_image
    flipped_output          \* what augment_image returned for it

flip_vars == <<flip_pc, mode, horizontal, vertical, draws, transformation,
               image, flipped_output>>

vars == <<encoder_vars, flip_vars>>

HORIZONTAL == "horizontal"
VERTICAL == "vertical"
HORIZONTAL_AND_VERTICAL == "horizontal_and_vertical"

NoTransformation == [flip_horizontal |-> FALSE, flip_vertical |-> FALSE]

(***************************************************************************)
(* The configurations, weights and inputs the model explores.              *)
(***************************************************************************)
EmbedDims == {2}
MaskInChans == {4}
GridSizes == (1..MaxGrid) \X (1..MaxGrid)
ImageSizes == {<<8, 16>>, <<0, 16>>}

\* A table of one row, v, v + 1, ...
Row(v, E) == Make(<<1, E>>, LAMBDA idx : v + idx[2])

\* The first elements of the foreground and of the background row.
PointRows == {<<1, 3>>, <<3, 3>>}

\* Coordinates in half pixels and labels; element (b, i) of an input is
\* taken from the pool at an offset that the seed shifts.
CoordPool == << <<2, 4>>, <<7, 1>>, <<12, 10>>, <<30, 15>> >>
LabelPool == <<-1, 0, 1, 2, -2>>
Seeds == 0..(Len(LabelPool) - 1)

Pick(pool, k) == pool[(k % Len(pool)) + 1]

PointsTensor(B, N, seed) ==
    Make(<<B, N, 2>>,
         LAMBDA idx : Pick(CoordPool, seed + 2 * idx[1] + idx[2])[idx[3] + 1])

LabelsTensor(B, N, seed) ==
    Make(<<B, N>>, LAMBDA idx : Pick(LabelPool, seed + idx[1] + 2 * idx[2]))

BoxesTensor(B, N, seed) ==
    Make(<<B, N, 2, 2>>,
         LAMBDA idx :
            Pick(CoordPool, seed + 3 * idx[1] + 2 * idx[2] + idx[3])[idx[4] + 1])

MasksTensor(shape) == Full(shape, 1)

\* Heights and widths of masks: four times a grid, or with a zero side.
MaskSizes ==
    {<<4 * g[1], 4 * g[2]>> : g \in GridSizes} \cup {<<0, 4>>, <<4, 0>>}

\* Prompts of one batch size, without a mask, that vary the points, the
\* labels and the boxes.
SparseInputs ==
    {[points |-> PointsTensor(B, Np, seed),
      labels |-> LabelsTensor(B, Np, seed),
      boxes  |-> BoxesTensor(B, Nb, seed),
      masks  |-> MasksTensor(<<B, 0, 4, 4, 1>>)] :
        <<B, Np, Nb, seed>> \in
            (1..MaxBatch) \X (0..MaxPoints) \X (0..MaxBoxes) \X Seeds}

\* Prompts of one batch size that vary the masks.
DenseInputs ==
    {[points |-> PointsTensor(B, 1, 1),
      labels |-> LabelsTensor(B, 1, 1),
      boxes  |-> BoxesTensor(B, 1, 1),
      masks  |-> MasksTensor(<<B, Nm, size[1], size[2], 1>>)] :
        <<B, Nm, size>> \in (1..MaxBatch) \X (0..MaxMasks) \X MaskSizes}

\* Prompts in which the labels, the boxes or the masks have another batch
\* size than the points.
BatchInputs ==
    {[points |-> PointsTensor(B, 1, 0),
      labels |-> LabelsTensor(IF which = "labels" THEN other ELSE B, 1, 0),
      boxes  |-> BoxesTensor(IF which = "boxes" THEN other ELSE B, 1, 0),
      masks  |-> MasksTensor(<<IF which = "masks" THEN other ELSE B,
                               Nm, 4, 4, 1>>)] :
        <<B, other, which, Nm>> \in
            (1..MaxBatch) \X (1..MaxBatch) \X {"labels", "boxes", "masks"}
                \X {0, 1}}

Inputs == SparseInputs \cup DenseInputs \cup BatchInputs

(***************************************************************************)
(* Initial state: neither object is constructed.                           *)
(***************************************************************************)
Init ==
    /\ pc = "new"
    /\ embed_dim = 0
    /\ image_embedding_size = <<0, 0>>
    /\ input_image_size = <<0, 0>>
    /\ mask_in_chans = 0
    /\ weights = NoWeights
    /\ inputs = NoInputs
    /\ outputs = NoOutputs
    /\ previous = NoCall
    /\ flip_pc = "new"
    /\ mode = ""
    /\ horizontal = FALSE
    /\ vertical = FALSE
    /\ draws = <<>>
    /\ transformation = NoTransformation
    /\ image = NoTensor
    /\ flipped_output = NoTensor

(***************************************************************************)
(* SAMPromptEncoder operations.                                            *)
(***************************************************************************)
\* __init__: stores the configuration and creates the sublayers.
Construct(e, grid, size, chans) ==
    /\ pc = "new"
    /\ pc' = "constructed"
    /\ embed_dim' = e
    /\ image_embedding_size' = grid
    /\ input_image_size' = size
    /\ mask_in_chans' = chans
    /\ UNCHANGED <<weights, inputs, outputs, previous, flip_vars>>

\* build: creates the weights of the six tables and of the positional
\* embedding layer.
Build(rows) ==
    /\ pc = "constructed"
    /\ pc' = "built"
    /\ weights' =
          [foreground_point_embed |-> Row(rows[1], embed_dim),
           background_point_embed |-> Row(rows[2], embed_dim),
           top_left_corner_embed |-> Row(5, embed_dim),
           bottom_right_corner_embed |-> Row(7, embed_dim),
           not_a_point_embed |-> Row(20, embed_dim),
           no_mask_embed |-> Row(30, embed_dim),
           positional_embedding_layer |->
               Make(<<2, embed_dim \div 2>>,
                    LAMBDA idx : 1 + 2 * idx[1] + idx[2])]
    /\ UNCHANGED <<embed_dim, image_embedding_size, input_image_size,
                   mask_in_chans, inputs, outputs, previous, flip_vars>>

\* An engine that traces both functions of the conditional (lines 250-255)
\* runs _maybe_input_mask_embed on an empty mask too, and fails where the
\* downscaler cannot take it.
TracedBranchFails(mask) ==
    TensorSize(mask) = 0 /\ ~CanMaybeInputMaskEmbed(mask)

\* What a call can give: the mapping of an engine that evaluates the
\* selected function only, or the failure of one that traces both.
CallOutcomes(inp) ==
    {call(inp)} \cup
        (IF TracedBranchFails(inp.masks)
         THEN {[NoOutputs EXCEPT !.status = "error"]}
         ELSE {})

\* call that creates the no-mask table where it looks it up.
Call_creates_no_mask_embed(inp) ==
    /\ pc = "built"
    /\ pc' = "returning"
    /\ inputs' = inp
    /\ weights' = [weights EXCEPT !.no_mask_embed = Row(0, embed_dim)]
    /\ outputs' \in CallOutcomes(inp)
    /\ UNCHANGED <<embed_dim, image_embedding_size, input_image_size,
                   mask_in_chans, previous, flip_vars>>

\* call, up to its return statement.
Call(inp) ==
    /\ pc = "built"
    /\ pc' = "returning"
    /\ inputs' = inp
    /\ outputs' \in CallOutcomes(inp)
    /\ UNCHANGED <<embed_dim, image_embedding_size, input_image_size,
                   mask_in_chans, weights, previous, flip_vars>>

\* The mapping (or the exception) goes to the caller; the layer keeps no
\* reference to the inputs or to the outputs.
Return ==
    /\ pc = "returning"
    /\ pc' = "built"
    /\ inputs' = NoInputs
    /\ outputs' = NoOutputs
    /\ UNCHANGED <<embed_dim, image_embedding_size, input_image_size,
                   mask_in_chans, weights, previous, flip_vars>>

\* The same return to a caller that keeps the inputs it gave and the
\* mapping it got.
ReturnKept ==
    /\ pc = "returning"
    /\ pc' = "built"
    /\ previous' = [inputs |-> inputs, outputs |-> outputs]
    /\ inputs' = NoInputs
    /\ outputs' = NoOutputs
    /\ UNCHANGED <<embed_dim, image_embedding_size, input_image_size,
                   mask_in_chans, weights, flip_vars>>

Next ==
    \/ \E e \in EmbedDims, grid \in GridSizes, size \in ImageSizes,
          chans \in MaskInChans : Construct(e, grid, size, chans)
    \/ \E rows \in PointRows : Build(rows)
    \/ \E inp \in Inputs : Call(inp)
    \/ Return

Spec == Init /\ [][Next]_vars

\* Prompts for sequences of calls: the batch size, the presence of a mask
\* of the size the downscaler is built for, the points and the boxes vary;
\* in one prompt of each batch size the boxes have another batch size.
CallInputs ==
    {[points |-> PointsTensor(B, 1, seed),
      labels |-> LabelsTensor(B, 1, seed),
      boxes  |-> BoxesTensor(Bb, 1, seed),
      masks  |-> MasksTensor(<<B, Nm, 4 * image_embedding_size[1],
                               4 * image_embedding_size[2], 1>>)] :
        <<B, Bb, Nm, seed>> \in
            {q \in (1..MaxBatch) \X (1..MaxBatch) \X {0, 1} \X {0, 1} :
                \/ q[2] = q[1]
                \/ q[2] = (q[1] % MaxBatch) + 1 /\ q[3] = 0 /\ q[4] = 0}}

\* Sequences of calls whose caller keeps the result of the call before.
NextCalls ==
    \/ \E e \in EmbedDims, grid \in GridSizes, size \in ImageSizes,
          chans \in MaskInChans : Construct(e, grid, size, chans)
    \/ \E rows \in PointRows : Build(rows)
    \/ \E inp \in CallInputs : Call(inp)
    \/ ReturnKept

SpecCalls == Init /\ [][NextCalls]_vars


(***************************************************************************)
(* OldRandomFlip operations.                                               *)
(***************************************************************************)
Modes == {HORIZONTAL, VERTICAL, HORIZONTAL_AND_VERTICAL, "diagonal",
          "Horizontal", ""}

ValidModes == {HORIZONTAL, VERTICAL, HORIZONTAL_AND_VERTICAL}

\* Uniform draws from [0, 1), in tenths.
Draws == {0, 4, 5, 6, 9}

\* The 0.5 a draw is compared with, in tenths.
FlipThreshold == 5

\* Images of height 2 and width 2 with one channel.
Images ==
    {[shape |-> <<2, 2, 1>>, data |-> d] : d \in [1..4 -> {0, 1}]}

\* __init__ with the flags of the vertical mode exchanged.
flip_init_vertical_swapped(m) ==
    IF m = HORIZONTAL
    THEN [raised |-> FALSE, horizontal |-> TRUE, vertical |-> FALSE]
    ELSE IF m = VERTICAL
    THEN [raised |-> FALSE, horizontal |-> TRUE, vertical |-> FALSE]
    ELSE IF m = HORIZONTAL_AND_VERTICAL
    THEN [raised |-> FALSE, horizontal |-> TRUE, vertical |-> TRUE]
    ELSE [raised |-> TRUE, horizontal |-> FALSE, vertical |-> FALSE]

\* __init__: the flags of the mode, or "raise" for an unknown mode.
flip_init(m) ==
    IF m = HORIZONTAL
    THEN [raised |-> FALSE, horizontal |-> TRUE, vertical |-> FALSE]
    ELSE IF m = VERTICAL
    THEN [raised |-> FALSE, horizontal |-> FALSE, vertical |-> TRUE]
    ELSE IF m = HORIZONTAL_AND_VERTICAL
    THEN [raised |-> FALSE, horizontal |-> TRUE, vertical |-> TRUE]
    ELSE [raised |-> TRUE, horizontal |-> FALSE, vertical |-> FALSE]

FlipConstruct(m) ==
    /\ flip_pc = "new"
    /\ mode' = m
    /\ flip_pc' = IF flip_init(m).raised THEN "raised" ELSE "constructed"
    /\ horizontal' = flip_init(m).horizontal
    /\ vertical' = flip_init(m).vertical
    /\ UNCHANGED <<draws, transformation, image, flipped_output,
                   encoder_vars>>

\* get_random_transformation that flips for a draw of 0.5 too.
get_random_transformation_at_least(u1, u2) ==
    [flip_horizontal |-> IF horizontal THEN u1 >= FlipThreshold ELSE FALSE,
     flip_vertical   |-> IF vertical THEN u2 >= FlipThreshold ELSE FALSE]

\* u1 and u2 are the draws of the seed generator; a draw is made only for
\* an enabled axis.
get_random_transformation(u1, u2) ==
    [flip_horizontal |-> IF horizontal THEN u1 > FlipThreshold ELSE FALSE,
     flip_vertical   |-> IF vertical THEN u2 > FlipThreshold ELSE FALSE]

\* The draws the seed generator was asked for, in order.
random_uniform(u1, u2) ==
    (IF horizontal THEN <<u1>> ELSE <<>>) \o
        (IF vertical THEN <<u2>> ELSE <<>>)

GetRandomTransformation(u1, u2) ==
    /\ flip_pc \in {"constructed", "transformed", "augmented"}
    /\ flip_pc' = "transformed"
    /\ draws' = random_uniform(u1, u2)
    /\ transformation' = get_random_transformation(u1, u2)
    /\ UNCHANGED <<mode, horizontal, vertical, image, flipped_output,
                   encoder_vars>>

\* tf.image.flip_left_right reverses the width axis, flip_up_down the
\* height axis, of an image of shape (height, width, channels).
flip_left_right(img) ==
    Make(img.shape,
         LAMBDA idx : At(img, <<idx[1], img.shape[2] - 1 - idx[2], idx[3]>>))

flip_up_down(img) ==
    Make(img.shape,
         LAMBDA idx : At(img, <<img.shape[1] - 1 - idx[1], idx[2], idx[3]>>))

flip_image(img, t) ==
    LET first == IF t.flip_horizontal THEN flip_left_right(img) ELSE img
    IN  IF t.flip_vertical THEN flip_up_down(first) ELSE first

\* augment_image with the transformation that was drawn for the image.
AugmentImage(img) ==
    /\ flip_pc = "transformed"
    /\ flip_pc' = "augmented"
    /\ image' = img
    /\ flipped_output' = flip_image(img, transformation)
    /\ UNCHANGED <<mode, horizontal, vertical, draws, transformation,
                   encoder_vars>>

NextFlip ==
    \/ \E m \in Modes : FlipConstruct(m)
    \/ \E u1 \in Draws, u2 \in Draws : GetRandomTransformation(u1, u2)
    \/ \E img \in Images : AugmentImage(img)

SpecFlip == Init /\ [][NextFlip]_vars


(***************************************************************************)
(* Properties.  The shapes and elements they speak of are those of the     *)
(* call that is returning.                                                 *)
(***************************************************************************)
Returned == pc = "returning" /\ outputs.status = "ok"

BatchOf(t) == t.shape[1]

NumPoints == inputs.points.shape[2]

NumBoxes == inputs.boxes.shape[2]

\* The labels tensor has one label per point.
LabelsAligned == inputs.labels.shape = <<BatchOf(inputs.points), NumPoints>>

PointIndices == (0..(BatchOf(inputs.points) - 1)) \X (0..(NumPoints - 1))

Features == 0..(embed_dim - 1)

\* Feature k of the positional encoding of the half-pixel point (x, y).
Encoded(x, y, k) ==
    positional_encodings(x, y, input_image_size,
                         weights.positional_embedding_layer, k)

PointCoord(b, i, d) == At(inputs.points, <<b, i, d>>)

LabelOf(b, i) == At(inputs.labels, <<b, i>>)

\* C1: every point whose label is -1 is embedded as the not-a-point row,
\* whatever its coordinates and the foreground and background rows are.
C1_NotAPointOverrides ==
    (Returned /\ LabelsAligned) =>
        \A p \in PointIndices :
            LabelOf(p[1], p[2]) = -1 =>
                \A k \in Features :
                    At(outputs.sparse_embeddings, <<p[1], p[2], k>>)
                        = At(weights.not_a_point_embed, <<0, k>>)

\* A not-a-point label on a point whose foreground sum differs from the
\* not-a-point row.
C1_Witness ==
    /\ Returned /\ LabelsAligned
    /\ \E p \in PointIndices :
          /\ LabelOf(p[1], p[2]) = -1
          /\ \E k \in Features :
                FAdd(Encoded(PointCoord(p[1], p[2], 0) + HalfPixel,
                             PointCoord(p[1], p[2], 1) + HalfPixel, k),
                     At(weights.foreground_point_embed, <<0, k>>))
                    # At(weights.not_a_point_embed, <<0, k>>)

\* C2: a point with a label other than -1 is embedded as the positional
\* encoding of its coordinates plus 0.5, plus the background row for label
\* 0 and the foreground row for every other label.
C2_PointEmbedding ==
    (Returned /\ LabelsAligned) =>
        \A p \in PointIndices :
            LabelOf(p[1], p[2]) # -1 =>
                \A k \in Features :
                    At(outputs.sparse_embeddings, <<p[1], p[2], k>>)
                        = FAdd(Encoded(PointCoord(p[1], p[2], 0) + HalfPixel,
                                       PointCoord(p[1], p[2], 1) + HalfPixel,
                                       k),
                               IF LabelOf(p[1], p[2]) = 0
                               THEN At(weights.background_point_embed,
                                       <<0, k>>)
                               ELSE At(weights.foreground_point_embed,
                                       <<0, k>>))

\* A point with a label that is neither -1, 0 nor 1, where the foreground
\* and background rows differ and the encoding is a number.
C2_Witness ==
    /\ Returned /\ LabelsAligned
    /\ weights.foreground_point_embed # weights.background_point_embed
    /\ input_image_size[1] # 0 /\ input_image_size[2] # 0
    /\ \E p \in PointIndices : LabelOf(p[1], p[2]) \notin {-1, 0, 1}
    /\ \E p \in PointIndices : LabelOf(p[1], p[2]) = 0

\* The points, labels and boxes of the call have one batch size and one
\* label per point.
SparseAligned ==
    /\ LabelsAligned
    /\ BatchOf(inputs.boxes) = BatchOf(inputs.points)

\* C3: the sparse embeddings have length num_points + 2 * num_boxes: the
\* point embeddings in input order, then the box embeddings; empty point
\* and box segments are accepted.
C3_SparseLength ==
    /\ (pc = "returning" /\ SparseAligned /\ inputs.masks.shape[2] = 0)
            => outputs.status = "ok"
    /\ (Returned /\ SparseAligned) =>
          LET point_embeddings == embed_points(inputs.points, inputs.labels)
              box_embeddings == embed_box(inputs.boxes)
          IN  /\ outputs.sparse_embeddings.shape
                    = <<BatchOf(inputs.points), NumPoints + 2 * NumBoxes,
                        embed_dim>>
              /\ \A b \in 0..(BatchOf(inputs.points) - 1), k \in Features :
                    /\ \A i \in 0..(NumPoints - 1) :
                          At(outputs.sparse_embeddings, <<b, i, k>>)
                              = At(point_embeddings, <<b, i, k>>)
                    /\ \A j \in 0..(2 * NumBoxes - 1) :
                          At(outputs.sparse_embeddings,
                             <<b, NumPoints + j, k>>)
                              = At(box_embeddings, <<b, j, k>>)

\* A call with points and boxes whose first point embedding differs from
\* its first box embedding.
C3_Witness ==
    /\ Returned /\ SparseAligned
    /\ NumPoints >= 1 /\ NumBoxes >= 1
    /\ \E k \in Features :
          At(embed_points(inputs.points, inputs.labels), <<0, 0, k>>)
              # At(embed_box(inputs.boxes), <<0, 0, k>>)

\* A call without points and without boxes returns a sparse sequence of
\* length 0.
C3_EmptyWitness ==
    /\ Returned
    /\ NumPoints = 0 /\ NumBoxes = 0
    /\ outputs.sparse_embeddings.shape
          = <<BatchOf(inputs.points), 0, embed_dim>>

BoxCoord(b, n, c, d) == At(inputs.boxes, <<b, n, c, d>>)

\* Feature k of corner c of box n of batch element b: its encoding plus
\* the top-left row for corner 0 and the bottom-right row for corner 1.
CornerEmbedding(b, n, c, k) ==
    FAdd(Encoded(BoxCoord(b, n, c, 0) + HalfPixel,
                 BoxCoord(b, n, c, 1) + HalfPixel, k),
         IF c = 0
         THEN At(weights.top_left_corner_embed, <<0, k>>)
         ELSE At(weights.bottom_right_corner_embed, <<0, k>>))

\* C4: in the box segment, position 2n holds corner 0 of box n and
\* position 2n + 1 its corner 1, for every batch element.
C4_BoxSegment ==
    (Returned /\ SparseAligned) =>
        \A b \in 0..(BatchOf(inputs.boxes) - 1), n \in 0..(NumBoxes - 1),
           c \in {0, 1}, k \in Features :
            At(outputs.sparse_embeddings, <<b, NumPoints + 2 * n + c, k>>)
                = CornerEmbedding(b, n, c, k)

\* Two batch elements of two boxes each, with corners that are embedded
\* differently: corner 1 of box 0 and corner 0 of box 1, and box 0 of the
\* two batch elements.
C4_Witness ==
    /\ Returned /\ SparseAligned
    /\ BatchOf(inputs.boxes) >= 2 /\ NumBoxes >= 2
    /\ \E k \in Features :
          CornerEmbedding(0, 0, 1, k) # CornerEmbedding(0, 1, 0, k)
    /\ \E k \in Features :
          CornerEmbedding(0, 0, 0, k) # CornerEmbedding(1, 0, 0, k)

GridCells ==
    (0..(image_embedding_size[1] - 1)) \X (0..(image_embedding_size[2] - 1))

DenseShape(B) ==
    <<B, image_embedding_size[1], image_embedding_size[2], embed_dim>>

\* C5: for masks of zero total size the dense embeddings are the no-mask
\* row at every batch element and every cell of the grid.
C5_EmptyMaskDense ==
    (Returned /\ TensorSize(inputs.masks) = 0) =>
        /\ outputs.dense_embeddings.shape = DenseShape(BatchOf(inputs.points))
        /\ \A b \in 0..(BatchOf(inputs.points) - 1), cell \in GridCells,
              k \in Features :
                At(outputs.dense_embeddings, <<b, cell[1], cell[2], k>>)
                    = At(weights.no_mask_embed, <<0, k>>)

\* Masks of zero size whose mask-count axis is not zero, on a grid of more
\* than one cell and a batch of more than one element.
C5_Witness ==
    /\ Returned
    /\ TensorSize(inputs.masks) = 0
    /\ inputs.masks.shape[2] > 0
    /\ BatchOf(inputs.points) >= 2
    /\ Cardinality(GridCells) >= 2

\* The masks are not empty and have one channel and four times the height
\* and width of the image embedding.
MaskFitsGrid ==
    /\ TensorSize(inputs.masks) # 0
    /\ inputs.masks.shape[3] = 4 * image_embedding_size[1]
    /\ inputs.masks.shape[4] = 4 * image_embedding_size[2]
    /\ inputs.masks.shape[5] = 1

\* C6: the mask downscaler takes a mask of 4H x 4W x 1 to H x W with
\* embed_dim channels.
C6_DownscalerShape ==
    /\ (pc = "returning" /\ SparseAligned /\ MaskFitsGrid)
            => outputs.status = "ok"
    /\ (Returned /\ MaskFitsGrid) =>
          SubSeq(outputs.dense_embeddings.shape, 2, 4)
              = <<image_embedding_size[1], image_embedding_size[2],
                  embed_dim>>

\* A mask of 4H x 4W on a grid that is not square and has a side above 1.
C6_Witness ==
    /\ Returned /\ MaskFitsGrid
    /\ image_embedding_size[1] # image_embedding_size[2]
    /\ image_embedding_size[1] >= 2

\* C7, as claimed: the dense embeddings of every call have the shape
\* (B, H, W, embed_dim), also for more than one mask per batch element.
\* The masks are either empty or of the size the downscaler is built for,
\* with the batch size of the points.
C7_DenseShapeFixed ==
    (/\ Returned
     /\ TensorSize(inputs.masks) = 0
            \/ (MaskFitsGrid
                /\ BatchOf(inputs.masks) = BatchOf(inputs.points)))
        => outputs.dense_embeddings.shape
              = DenseShape(BatchOf(inputs.points))

BatchSizes ==
    {BatchOf(inputs.points), BatchOf(inputs.labels), BatchOf(inputs.boxes),
     BatchOf(inputs.masks)}

\* C8, as claimed: a call whose four inputs do not have one batch size
\* fails and returns no output.
C8_BatchMismatchFails ==
    (pc = "returning" /\ Cardinality(BatchSizes) > 1)
        => outputs.status = "error"

\* C9, as claimed: no encoder is constructed with an input_image_size that
\* has a zero dimension.
C9_ZeroImageSizeRejected ==
    pc # "new" => (input_image_size[1] # 0 /\ input_image_size[2] # 0)

\* C10: OldRandomFlip raises for a mode other than the three valid ones,
\* and sets (horizontal, vertical) to (True, False), (False, True) and
\* (True, True) for "horizontal", "vertical" and "horizontal_and_vertical".
C10_FlipModes ==
    flip_pc # "new" =>
        /\ mode \notin {"horizontal", "vertical", "horizontal_and_vertical"}
              <=> flip_pc = "raised"
        /\ mode = "horizontal" => (horizontal /\ ~vertical)
        /\ mode = "vertical" => (~horizontal /\ vertical)
        /\ mode = "horizontal_and_vertical" => (horizontal /\ vertical)

\* A layer constructed in the vertical mode.
C10_Witness ==
    flip_pc = "constructed" /\ mode = "vertical" /\ vertical /\ ~horizontal

\* A construction that raised for an unknown mode.
C10_RaisedWitness == flip_pc = "raised" /\ mode = "diagonal"

(***************************************************************************)
(* C11: in a built encoder the positional grid a call returns is the one   *)
(* the call before it returned, whatever points, labels, boxes and masks   *)
(* the two calls were given.                                               *)
(***************************************************************************)
C11_PositionalFixed ==
    (Returned /\ previous.outputs.status = "ok") =>
        /\ outputs.dense_positional_embeddings =
               previous.outputs.dense_positional_embeddings
        /\ outputs.dense_positional_embeddings.shape =
               <<1, image_embedding_size[1], image_embedding_size[2],
                 embed_dim>>

\* Two returned calls that differ in the batch size, the points, the
\* labels, the boxes and the presence of a mask.
C11_Witness ==
    /\ Returned
    /\ previous.outputs.status = "ok"
    /\ BatchOf(inputs.points) # BatchOf(previous.inputs.points)
    /\ inputs.points.data[1] # previous.inputs.points.data[1]
    /\ inputs.labels.data[1] # previous.inputs.labels.data[1]
    /\ inputs.boxes.data[1] # previous.inputs.boxes.data[1]
    /\ TensorSize(inputs.masks) = 0
    /\ TensorSize(previous.inputs.masks) # 0
    /\ outputs.dense_embeddings # previous.outputs.dense_embeddings

(***************************************************************************)
(* C12: for masks of zero total size the two functions given to the        *)
(* conditional return the same tensor of shape (B, H, W, embed_dim), so    *)
(* a call with aligned points and boxes returns it whether the engine      *)
(* evaluates the selected function only or traces both.                    *)
(***************************************************************************)
C12_BranchesAgree ==
    (pc = "returning" /\ TensorSize(inputs.masks) = 0) =>
        LET B == BatchOf(inputs.points)
        IN  /\ CanMaybeInputMaskEmbed(inputs.masks)
            /\ maybe_input_mask_embed(inputs.masks, B) = no_mask_embed(B)
            /\ no_mask_embed(B).shape = DenseShape(B)
            /\ SparseAligned =>
                    /\ outputs.status = "ok"
                    /\ outputs.dense_embeddings = no_mask_embed(B)

(***************************************************************************)
(* C13: once the encoder is built, no step of any sequence of calls        *)
(* changes a weight: the six tables and the positional projection keep     *)
(* the shapes and the values build gave them, for calls that return and    *)
(* for calls that fail.                                                    *)
(***************************************************************************)
Tables ==
    <<weights.foreground_point_embed, weights.background_point_embed,
      weights.top_left_corner_embed, weights.bottom_right_corner_embed,
      weights.not_a_point_embed, weights.no_mask_embed>>

WeightsCreated ==
    /\ \A i \in 1..Len(Tables) : Tables[i].shape = <<1, embed_dim>>
    /\ weights.positional_embedding_layer.shape = <<2, embed_dim \div 2>>

WeightsKept ==
    pc \in {"built", "returning"} => (WeightsCreated /\ weights' = weights)

C13_WeightsFrozen == [][WeightsKept]_vars

\* A second call has returned, after a first one with other inputs; one
\* of the two used the no-mask table and the other the downscaler.
C13_Witness ==
    /\ Returned
    /\ previous.outputs.status \in {"ok", "error"}
    /\ previous.inputs # inputs
    /\ TensorSize(previous.inputs.masks) = 0
    /\ TensorSize(inputs.masks) # 0
    /\ WeightsCreated

(***************************************************************************)
(* C14: get_random_transformation draws once for each axis the mode        *)
(* enables, sets the flag of that axis exactly when the draw is above 0.5  *)
(* and leaves the flag of the other axis False; _flip_image reverses the   *)
(* width axis iff flip_horizontal and the height axis iff flip_vertical,   *)
(* and returns the image itself when both flags are False.                 *)
(***************************************************************************)
Pixels(img) ==
    (0..(img.shape[1] - 1)) \X (0..(img.shape[2] - 1))
        \X (0..(img.shape[3] - 1))

C14_FlipTransformation ==
    /\ flip_pc \in {"transformed", "augmented"} =>
          /\ mode = "horizontal" => ~transformation.flip_vertical
          /\ mode = "vertical" => ~transformation.flip_horizontal
          /\ Len(draws) = (IF horizontal THEN 1 ELSE 0)
                              + (IF vertical THEN 1 ELSE 0)
          /\ horizontal =>
                (transformation.flip_horizontal <=> draws[1] > FlipThreshold)
          /\ vertical =>
                (transformation.flip_vertical
                    <=> draws[Len(draws)] > FlipThreshold)
    /\ flip_pc = "augmented" =>
          /\ flipped_output.shape = image.shape
          /\ \A p \in Pixels(image) :
                At(flipped_output, p) =
                    At(image,
                       <<IF transformation.flip_vertical
                         THEN image.shape[1] - 1 - p[1] ELSE p[1],
                         IF transformation.flip_horizontal
                         THEN image.shape[2] - 1 - p[2] ELSE p[2],
                         p[3]>>)
          /\ (~transformation.flip_horizontal /\ ~transformation.flip_vertical)
                => flipped_output = image

\* An image that neither flip leaves as it is, flipped on both axes after
\* two draws above 0.5.
C14_Witness ==
    /\ flip_pc = "augmented"
    /\ mode = "horizontal_and_vertical"
    /\ Len(draws) = 2 /\ draws[1] > FlipThreshold /\ draws[2] > FlipThreshold
    /\ transformation.flip_horizontal /\ transformation.flip_vertical
    /\ flip_left_right(image) # image
    /\ flip_up_down(image) # image
    /\ flipped_output # image

\* In the horizontal mode a draw of exactly 0.5 leaves the image as it is.
C14_UnchangedWitness ==
    /\ flip_pc = "augmented"
    /\ mode = "horizontal"
    /\ draws = <<FlipThreshold>>
    /\ flip_left_right(image) # image
    /\ flipped_output = image

====
